---- MODULE Spec2Model ----
(***************************************************************************)
(* Model of the trading bot of packages/plugin-trading/python_trading:     *)
(* ezbot.py (the mode controller bot() and the scheduler loop), config.py  *)
(* (the static configuration) and nice_funcs.py (the swap submitter).      *)
(*                                                                         *)
(* Money is counted in whole USD, positions in whole tokens, prices in USD *)
(* per token.  An order amount is the integer int(chunk * 10**6) that the  *)
(* code passes to the swap submitter.                                      *)
(***************************************************************************)
EXTENDS Integers, Naturals, FiniteSets, Sequences, TLC

\* ------------------------------------------------------------------ bounds
\* Largest price the price provider quotes.
MaxPrice == 2
\* Largest position the wallet holds when the process starts.
MaxInitHeld == 6
\* Most calls of market_buy explored inside one invocation of bot().
MaxSub == 7
\* Number of price-change figures in a token overview.
NFigures == 3
\* the count of low position reads in a row is kept up to this value
MaxLowReads == 4
\* Money of the order-sizing check is counted in 1/SubSteps of a micro-USD.
SubSteps == 2
\* Largest position, in tokens, measured in the order-sizing check.
MaxFinePos == 30

\* ------------------------------------------------ configuration (config.py)
cfg_usd_size == 5
cfg_max_usd_order_size == 1
cfg_orders_per_open == 3
cfg_slippage == 199
cfg_tx_sleep == 30
\* time.sleep(30) of the outer except clause
Backoff == 30
\* 10**6 of int(chunk_size * 10**6)
Micro == 1000000
\* rug-pull threshold on a price-change figure, in percent
RugThreshold == -80

\* The configurations explored: the values of config.py and a few others.
TargetSet == {0, 3, cfg_usd_size}
CapSet == {cfg_max_usd_order_size, 2}
ReplicaSet == {1, cfg_orders_per_open}
BuyUnderSet == {1, 3}
SellOverSet == {1, 2}
\* 0 close, 1 buy, 4 pnl close, 5 market maker, 6 funding buy, 7 liquidation
\* amount; 2 stands for any other number the operator may type.
Modes == {0, 1, 2, 4, 5, 6, 7}
Prices == 1..MaxPrice
\* stable:   every remote call succeeds, every order fills, the price stays 1
\* volatile: every remote call succeeds, every order fills, the price moves
\* faulty:   any remote call may raise, an accepted order may never fill
Venues == {"stable", "volatile", "faulty"}

VARIABLES
    buy, usd_size, max_usd_order_size, slippage, orders_per_open, buy_under,
    sell_over,
    venue, held,
    pc, caller,
    pos, price, pos_usd, chunk_size, i, sub,
    nBuys, lastAmt, lastCall, report, stalled, readFailed, fails, startUsd,
    sawReached, staleSize, slept, lowReads,
    overview, sizing

config == <<buy, usd_size, max_usd_order_size, slippage, orders_per_open, buy_under,
            sell_over>>
locals == <<pos, price, pos_usd, chunk_size, i, sub>>
ghost == <<nBuys, lastAmt, lastCall, report, stalled, readFailed, fails, startUsd,
           sawReached, staleSize, slept, lowReads>>
vars == <<config, overview, sizing, venue, held, pc, caller, locals, ghost>>

\* ----------------------------------------------------------------- helpers
\* int(x): Python truncates toward zero.
IntTrunc(num, den) ==
    IF num >= 0 THEN num \div den ELSE -((-num) \div den)

\* int(chunk_size * 10**6), then str(): the decimal string is kept as the
\* integer it denotes.
ToMicro(chunk) == IntTrunc(chunk * Micro, 1)

\* Variant: the loop test is inclusive and ignores the tolerance.
BelowTarget_Inclusive(pu, target) == pu <= target

\* pos_usd < (.97 * usd_size)
BelowTarget(pu, target) == 100 * pu < 97 * target

\* pos_usd > (.97 * usd_size)
AboveTarget(pu, target) == 100 * pu > 97 * target

\* Variant: the chunk is the whole gap, the cap is not applied.
ChunkSize_NoCap(pu) == usd_size - pu

\* size_needed = usd_size - pos_usd, then the if/else that caps the chunk.
ChunkSize(pu) ==
    LET size_needed == usd_size - pu
    IN  IF size_needed > max_usd_order_size
        THEN max_usd_order_size
        ELSE size_needed

\* Outcomes of a remote call: TRUE returns, FALSE raises.
CallOutcomes == IF venue = "faulty" THEN {TRUE, FALSE} ELSE {TRUE}

\* Prices the price provider may quote on one read.
Quotes == IF venue = "stable" THEN {1} ELSE Prices

\* Tokens an order of amt micro-USD yields when it fills at price p (a token
\* is the smallest unit of the model, so a fill is rounded up to one).
FillQty(amt, p) ==
    IF amt <= 0 THEN 0 ELSE (amt + p * Micro - 1) \div (p * Micro)

\* Tokens an accepted order may add to the wallet.
Fills(amt) ==
    {FillQty(amt, p) : p \in Quotes} \cup (IF venue = "faulty" THEN {0} ELSE {})

\* An exception that leaves bot(): the first call (line 195) is outside any
\* try, the scheduled calls run inside the try of the scheduler loop.
Propagate == IF caller = "main" THEN "dead" ELSE "sched_except"


\* One measurement: pos = get_position(symbol); price = token_price(symbol);
\* pos_usd = pos * price; size_needed, chunk_size.  Either read may raise: the
\* exception goes to `handler`, with pos already assigned when it is the price
\* read that raised.
ReadAndSize(okpc, handler) ==
    \/ /\ pos' = held
       /\ \E p \in Quotes :
             /\ price' = p
             /\ pos_usd' = held * p
             /\ chunk_size' = ToMicro(ChunkSize(held * p))
             /\ sawReached' = (sawReached \/ ~BelowTarget(held * p, usd_size))
       /\ staleSize' = FALSE
       /\ slept' = 0 /\ lowReads' = lowReads
       /\ readFailed' = readFailed
       /\ pc' = okpc
    \/ /\ FALSE \in CallOutcomes
       /\ pos' \in {pos, held}
       /\ UNCHANGED <<price, pos_usd, chunk_size, sawReached, staleSize, lowReads>>
       /\ slept' = 0
       /\ readFailed' = TRUE
       /\ pc' = handler

\* pos = n.get_position(symbol) alone (close mode), the wallet holding bal.
ReadPosition(bal, okpc, handler) ==
    \/ /\ pos' = bal
       /\ lowReads' = IF 10 * bal >= 9 THEN 0
                      ELSE IF lowReads < MaxLowReads THEN lowReads + 1
                      ELSE lowReads
       /\ readFailed' = readFailed
       /\ pc' = okpc
    \/ /\ FALSE \in CallOutcomes
       /\ pos' = pos
       /\ lowReads' = lowReads
       /\ readFailed' = TRUE
       /\ pc' = handler

GetPosition(okpc, handler) == ReadPosition(held, okpc, handler)

\* n.market_buy(token, amount, slippage) is entered: the call is counted and
\* its amount recorded; sub is the request the call is about to make.
MarketBuy(amt) ==
    /\ sub = "idle"
    /\ nBuys < MaxSub
    /\ sub' = "quote"
    /\ nBuys' = nBuys + 1
    /\ lastAmt' = amt
    /\ lastCall' = "market_buy"

\* ------------------------------------------- token_overview (nice_funcs.py)
\* Names bound at module level by config.py, which nice_funcs.py imports with
\* `from config import *`.
ConfigNames ==
    {"symbol", "address", "usd_size", "max_usd_order_size", "tx_sleep",
     "slippage", "PRIORITY_FEE", "orders_per_open", "buy_under", "sell_over",
     "STOPLOSS_PRICE", "BREAKOUT_PRICE", "SLEEP_AFTER_CLOSE", "DAYSBACK_4_DATA",
     "DATA_TIMEFRAME", "sell_at_multiple", "USDC_SIZE", "limit", "timeframe",
     "stop_loss_perctentage", "tokens_to_trade", "EXIT_ALL_POSITIONS",
     "DO_NOT_TRADE_LIST", "CLOSED_POSITIONS_TXT", "minimum_trades_in_last_hour"}

\* Names bound by nice_funcs.py itself: its imports, assignments and defs.
NiceFuncsNames ==
    {"requests", "pd", "pprint", "reggie", "sys", "os", "time", "json", "np",
     "datetime", "timedelta", "ta", "colored", "cprint", "solders", "d",
     "API_KEY", "sample_address", "BASE_URL", "print_pretty_json", "find_urls",
     "token_overview", "token_security_info", "token_creation_info",
     "market_buy", "market_sell"}

\* A global name resolves when the module binds it.
NameResolves(name) == name \in ConfigNames \cup NiceFuncsNames

\* A price-change figure of the overview: <<>> is JSON null, <<v>> a number.
Figures == {<<>>, <<-81>>, <<-80>>, <<-79>>, <<0>>}
HttpStatuses == {200, 404, 500}

\* any(value < -80 for key, value in price_changes.items() if value is not None)
RugPull(changes) ==
    \E k \in DOMAIN changes : changes[k] # <<>> /\ changes[k][1] < RugThreshold

\* token_overview has not been called.
OverviewIdle ==
    [outcome |-> "not_called", status |-> 0, changes |-> <<>>,
     has_rug_pull |-> FALSE, rug_pull |-> FALSE, warned |-> FALSE]

\* token_overview(address), from the response of requests.get to its return.
\* On status 200 the body runs top-down: line 77 reads the global
\* MIN_TRADES_LAST_HOUR before lines 80-87 compute and store rug_pull.
TokenOverview ==
    /\ overview.outcome = "pending"
    /\ \/ /\ overview.status = 200
          /\ overview' =
               IF NameResolves("MIN_TRADES_LAST_HOUR")
               THEN [overview EXCEPT !.outcome = "dict",
                                     !.has_rug_pull = TRUE,
                                     !.rug_pull = RugPull(overview.changes),
                                     !.warned = RugPull(overview.changes)]
               ELSE [overview EXCEPT !.outcome = "NameError"]
       \/ /\ overview.status # 200
          /\ overview' = [overview EXCEPT !.outcome = "None"]
    /\ UNCHANGED <<config, sizing, venue, held, pc, caller, locals, ghost>>

\* ---------------------------------- order sizing at sub-micro resolution
\* Units of the sizing check per USD.
FineUnit == SubSteps * Micro

\* int(chunk_size * 10**6) of an amount counted in 1/FineUnit USD: the
\* factor 10**6 cancels against FineUnit and leaves the division by SubSteps.
ToMicroFine(chunk) == IntTrunc(chunk, FineUnit \div Micro)

\* Targets above 0: 3 and 40 micro-USD and the usd_size of config.py.
FineTargets == {3 * SubSteps, 40 * SubSteps, cfg_usd_size * FineUnit}

\* Prices of one token: 1/SubSteps micro-USD, 1 micro-USD, 0.2 USD.
FinePrices == {1, SubSteps, FineUnit \div 5}

\* The sizing check is not running.
SizingIdle ==
    [at |-> "idle", usd_size |-> 0, max_usd_order_size |-> 0, pos |-> 0,
     price |-> 0, pos_usd |-> 0, chunk_size |-> 0, amount |-> -1]

\* pos_usd = pos * price; size_needed = usd_size - pos_usd; the capped chunk;
\* chunk_size = str(int(chunk_size * 10**6))  (57 - 65)
SizingRead ==
    /\ sizing.at = "read"
    /\ LET pu == sizing.pos * sizing.price
           size_needed == sizing.usd_size - pu
           chunk == IF size_needed > sizing.max_usd_order_size
                    THEN sizing.max_usd_order_size
                    ELSE size_needed
       IN  sizing' = [sizing EXCEPT !.at = "test", !.pos_usd = pu,
                                    !.chunk_size = ToMicroFine(chunk)]
    /\ UNCHANGED <<config, overview, venue, held, pc, caller, locals, ghost>>

\* if pos_usd > (.97 * usd_size): 'position filled';
\* while pos_usd < (.97 * usd_size): ...  (67 - 71, 133)
SizingTest ==
    /\ sizing.at = "test"
    /\ sizing' = [sizing EXCEPT !.at =
                     IF BelowTarget(sizing.pos_usd, sizing.usd_size)
                     THEN "buy" ELSE "filled"]
    /\ UNCHANGED <<config, overview, venue, held, pc, caller, locals, ghost>>

\* n.market_buy(symbol, chunk_size, slippage): the amount handed over (78)
SizingBuy ==
    /\ sizing.at = "buy"
    /\ sizing' = [sizing EXCEPT !.at = "submitted",
                                !.amount = sizing.chunk_size]
    /\ UNCHANGED <<config, overview, venue, held, pc, caller, locals, ghost>>

\* ------------------------------------------------------------------- Init
Init ==
    /\ buy \in Modes
    /\ usd_size \in TargetSet
    /\ max_usd_order_size \in CapSet
    /\ slippage = cfg_slippage
    /\ orders_per_open \in (IF buy = 1 THEN ReplicaSet ELSE {cfg_orders_per_open})
    /\ buy_under \in (IF buy = 5 THEN BuyUnderSet ELSE {1})
    /\ sell_over \in (IF buy = 5 THEN SellOverSet ELSE {1})
    /\ venue \in Venues
    /\ held \in 0..MaxInitHeld
    /\ pc = "start"
    /\ caller = "main"
    /\ pos = 0 /\ price = 0 /\ pos_usd = 0 /\ chunk_size = 0 /\ i = 0
    /\ sub = "idle"
    /\ nBuys = 0 /\ lastAmt = 0 /\ lastCall = "none" /\ report = "none"
    /\ stalled = FALSE /\ readFailed = FALSE /\ fails = 0 /\ startUsd = -1
    /\ sawReached = FALSE /\ staleSize = FALSE /\ slept = 0 /\ lowReads = 0
    /\ overview = OverviewIdle
    /\ sizing = SizingIdle

\* A call of token_overview, with the response the data provider gives it;
\* the trading loop has not started and runs with the shipped config.py.
OverviewInit ==
    /\ buy = 0
    /\ usd_size = cfg_usd_size
    /\ max_usd_order_size = cfg_max_usd_order_size
    /\ slippage = cfg_slippage
    /\ orders_per_open = cfg_orders_per_open
    /\ buy_under = 1 /\ sell_over = 1
    /\ venue = "stable"
    /\ held = 0
    /\ pc = "start"
    /\ caller = "main"
    /\ pos = 0 /\ price = 0 /\ pos_usd = 0 /\ chunk_size = 0 /\ i = 0
    /\ sub = "idle"
    /\ nBuys = 0 /\ lastAmt = 0 /\ lastCall = "none" /\ report = "none"
    /\ stalled = FALSE /\ readFailed = FALSE /\ fails = 0 /\ startUsd = -1
    /\ sawReached = FALSE /\ staleSize = FALSE /\ slept = 0 /\ lowReads = 0
    /\ overview \in [outcome : {"pending"}, status : HttpStatuses,
                      changes : [1..NFigures -> Figures],
                      has_rug_pull : {FALSE}, rug_pull : {FALSE},
                      warned : {FALSE}]
    /\ sizing = SizingIdle

\* The first pass of `while buy == 1` at a resolution finer than the
\* micro-unit of the order amount: any target above 0, any measured position
\* and price; the cap is the one of config.py.
SizingInit ==
    /\ buy = 1
    /\ usd_size = cfg_usd_size
    /\ max_usd_order_size = cfg_max_usd_order_size
    /\ slippage = cfg_slippage
    /\ orders_per_open = cfg_orders_per_open
    /\ buy_under = 1 /\ sell_over = 1
    /\ venue = "stable"
    /\ held = 0
    /\ pc = "start"
    /\ caller = "main"
    /\ pos = 0 /\ price = 0 /\ pos_usd = 0 /\ chunk_size = 0 /\ i = 0
    /\ sub = "idle"
    /\ nBuys = 0 /\ lastAmt = 0 /\ lastCall = "none" /\ report = "none"
    /\ stalled = FALSE /\ readFailed = FALSE /\ fails = 0 /\ startUsd = -1
    /\ sawReached = FALSE /\ staleSize = FALSE /\ slept = 0 /\ lowReads = 0
    /\ overview = OverviewIdle
    /\ sizing \in [at : {"read"}, usd_size : FineTargets,
                    max_usd_order_size : {cfg_max_usd_order_size * FineUnit},
                    pos : 0..MaxFinePos, price : FinePrices,
                    pos_usd : {0}, chunk_size : {0}, amount : {-1}]

\* --------------------------------------------------- scheduler (195 - 205)
\* bot(): the first invocation, made before the scheduler loop.
Startup ==
    /\ pc = "start"
    /\ pc' = "b_entry"
    /\ caller' = "main"
    /\ UNCHANGED <<config, overview, sizing, venue, held, locals, ghost>>

\* Variant: the job runs on a timer of its own and starts bot() while an
\* earlier invocation is still running.
SchedRun_Overlapping ==
    /\ pc \notin {"start", "b_entry", "dead"}
    /\ pc' = "b_entry"
    /\ caller' = "sched"
    /\ UNCHANGED <<config, overview, sizing, venue, held, locals, ghost>>

\* schedule.run_pending() finds the job due and calls bot() inside the try.
SchedRun ==
    /\ pc = "sched"
    /\ pc' = "b_entry"
    /\ caller' = "sched"
    /\ UNCHANGED <<config, overview, sizing, venue, held, locals, ghost>>

\* schedule.run_pending() finds nothing due; time.sleep(3).
SchedWait ==
    /\ pc = "sched"
    /\ UNCHANGED vars

\* except: print('*** error, sleeping'); time.sleep(15)
SchedExcept ==
    /\ pc = "sched_except"
    /\ pc' = "sched"
    /\ UNCHANGED <<config, overview, sizing, venue, held, caller, locals, ghost>>

\* ------------------------------------------------------------ bot(): frame
\* def bot(): a fresh frame, then `while buy == 0`.
BotEntry ==
    /\ pc = "b_entry"
    /\ pc' = IF buy = 0 THEN "close_read" ELSE "after_close"
    /\ pos' = 0 /\ price' = 0 /\ pos_usd' = 0 /\ chunk_size' = 0 /\ i' = 0
    /\ sub' = "idle"
    /\ nBuys' = 0 /\ lastAmt' = 0 /\ lastCall' = "none" /\ report' = "none"
    /\ stalled' = FALSE /\ readFailed' = FALSE /\ fails' = 0 /\ startUsd' = -1
    /\ sawReached' = FALSE /\ staleSize' = FALSE /\ slept' = 0 /\ lowReads' = 0
    /\ UNCHANGED <<config, overview, sizing, venue, held, caller>>

\* Variant: a finished close loop falls through into the accumulate loop.
AfterClose_FallsThrough ==
    /\ pc = "after_close"
    /\ pc' = IF buy \in {0, 1} THEN "acc_read" ELSE "after_acc"
    /\ UNCHANGED <<config, overview, sizing, venue, held, caller, locals, ghost>>

\* print('bot successfully closed position...'), then `while buy == 1`.
AfterClose ==
    /\ pc = "after_close"
    /\ pc' = IF buy = 1 THEN "acc_read" ELSE "after_acc"
    /\ UNCHANGED <<config, overview, sizing, venue, held, caller, locals, ghost>>

\* Variant: selector 4 is dispatched to the market-maker loop.
AfterAcc_PnlTrades ==
    /\ pc = "after_acc"
    /\ pc' = CASE buy \in {4, 5} -> "mm_read"
               [] buy = 6 -> "funding"
               [] buy = 7 -> "liquidation"
               [] OTHER -> "b_exit"
    /\ UNCHANGED <<config, overview, sizing, venue, held, caller, locals, ghost>>

\* `while buy == 4`, `while buy == 5`, `while buy == 6`, `while buy == 7 ...
\* else: print('COMPLETE THANKS MOON DEV!')` and the return of bot().
AfterAcc ==
    /\ pc = "after_acc"
    /\ pc' = CASE buy = 4 -> "pnl"
               [] buy = 5 -> "mm_read"
               [] buy = 6 -> "funding"
               [] buy = 7 -> "liquidation"
               [] OTHER -> "b_exit"
    /\ UNCHANGED <<config, overview, sizing, venue, held, caller, locals, ghost>>

\* bot() returns to its caller; both callers continue in the scheduler loop.
BotReturn ==
    /\ pc = "b_exit"
    /\ pc' = "sched"
    /\ UNCHANGED <<config, overview, sizing, venue, held, caller, locals, ghost>>

\* while buy == 4: print('pnl close'), and the same for 6 and 7: no exit.
Spin ==
    /\ pc \in {"pnl", "funding", "liquidation"}
    /\ UNCHANGED vars

\* ------------------------------------------- bot(): buy == 1 (55 - 134)
\* pos, price, pos_usd, size_needed, chunk_size at the top of `while buy == 1`.
AccRead ==
    /\ pc = "acc_read"
    /\ ReadAndSize("acc_check", Propagate)
    /\ startUsd' = IF pc' = "acc_check" THEN pos_usd' ELSE startUsd
    /\ UNCHANGED <<config, overview, sizing, venue, held, caller, i, sub>>
    /\ UNCHANGED <<nBuys, lastAmt, lastCall, report, stalled, fails>>

\* if pos_usd > (.97 * usd_size): print('position filled')
AccCheck ==
    /\ pc = "acc_check"
    /\ IF AboveTarget(pos_usd, usd_size)
       THEN report' = "filled" /\ pc' = "acc_sleep"
       ELSE report' = report /\ pc' = "acc_loop"
    /\ UNCHANGED <<config, overview, sizing, venue, held, caller, locals>>
    /\ UNCHANGED <<nBuys, lastAmt, lastCall, stalled, readFailed, fails, startUsd, sawReached, staleSize, slept, lowReads>>

\* time.sleep(7867678)
AccSleep ==
    /\ pc = "acc_sleep"
    /\ pc' = "acc_loop"
    /\ UNCHANGED <<config, overview, sizing, venue, held, caller, locals, ghost>>

\* while pos_usd < (.97 * usd_size): enter the try, or leave the loop.
AccLoop ==
    /\ pc = "acc_loop"
    /\ IF BelowTarget(pos_usd, usd_size)
       THEN pc' = "acc_buy" /\ i' = 0 /\ fails' = 0
       ELSE pc' = "acc_filled" /\ i' = i /\ fails' = fails
    /\ UNCHANGED <<config, overview, sizing, venue, held, caller, pos, price, pos_usd, chunk_size, sub>>
    /\ UNCHANGED <<nBuys, lastAmt, lastCall, report, stalled, readFailed, startUsd, sawReached, staleSize, slept, lowReads>>

\* Variant: the replica loop stops after its first order.
AccBuy_NoReplicas ==
    /\ pc = "acc_buy"
    /\ i < orders_per_open
    /\ MarketBuy(chunk_size)
    /\ i' = orders_per_open - 1
    /\ UNCHANGED <<config, overview, sizing, venue, held, pc, caller, pos, price, pos_usd, chunk_size>>
    /\ UNCHANGED <<report, stalled, readFailed, fails, startUsd, sawReached, staleSize, slept, lowReads>>

\* Variant: the order is handed over and the loop goes on to the re-read
\* without waiting for market_buy to return.
AccBuy_NoWait ==
    /\ pc = "acc_buy"
    /\ i < orders_per_open
    /\ MarketBuy(chunk_size)
    /\ pc' = "acc_reread"
    /\ UNCHANGED <<config, overview, sizing, venue, held, caller, pos, price, pos_usd, chunk_size, i>>
    /\ UNCHANGED <<report, stalled, readFailed, fails, startUsd, sawReached, staleSize, slept, lowReads>>

\* for i in range(orders_per_open): n.market_buy(symbol, chunk_size, slippage)
AccBuy ==
    /\ pc = "acc_buy"
    /\ i < orders_per_open
    /\ MarketBuy(chunk_size)
    /\ UNCHANGED <<config, overview, sizing, venue, held, pc, caller, pos, price, pos_usd, chunk_size, i>>
    /\ UNCHANGED <<report, stalled, readFailed, fails, startUsd, sawReached, staleSize, slept, lowReads>>

\* Variant: every failed submission is handled by the retrying handler.
ExceptHandler_AlwaysRetry == "acc_backoff"

\* The except clause that catches an exception raised inside market_buy: the
\* outer one (94) for the first attempt, the inner one (116) for the retry.
ExceptHandler == IF pc = "acc_buy" THEN "acc_backoff" ELSE "acc_final"

\* Variant: the exception of a replica is swallowed, the for loop goes on.
SubRaise_Ignored ==
    /\ sub' = "idle"
    /\ fails' = fails + 1
    /\ i' = i + 1
    /\ slept' = 1
    /\ UNCHANGED <<pc, held, staleSize, lowReads>>

\* A request of market_buy raises: the call is over, the handler runs next.
SubRaise ==
    /\ sub' = "idle"
    /\ fails' = fails + 1
    /\ pc' = ExceptHandler
    /\ slept' = 0
    /\ UNCHANGED <<held, i, staleSize, lowReads>>

\* quote = requests.get('https://quote-api.jup.ag/v6/quote?...').json():
\* the request returns a quote, or returns an error body that .json() parses
\* as well (sub = "swap_bad"), or raises.
SubQuote ==
    /\ sub = "quote"
    /\ \/ sub' = "swap" /\ UNCHANGED <<pc, held, i, fails, staleSize, slept, lowReads>>
       \/ /\ venue = "faulty"
          /\ sub' = "swap_bad" /\ UNCHANGED <<pc, held, i, fails, staleSize, slept, lowReads>>
       \/ FALSE \in CallOutcomes /\ SubRaise
    /\ UNCHANGED <<config, overview, sizing, venue, caller, pos, price, pos_usd, chunk_size>>
    /\ UNCHANGED <<nBuys, lastAmt, lastCall, report, stalled, readFailed, startUsd, sawReached>>

\* Variant: a failed swap request goes back to the quote request.
SubSwap_RetriesQuote ==
    /\ sub \in {"swap", "swap_bad"}
    /\ \/ sub = "swap" /\ sub' = "send" /\ UNCHANGED <<pc, held, i, fails, staleSize, slept, lowReads>>
       \/ /\ (sub = "swap_bad" \/ FALSE \in CallOutcomes)
          /\ sub' = "quote" /\ UNCHANGED <<pc, held, i, fails, staleSize, slept, lowReads>>
    /\ UNCHANGED <<config, overview, sizing, venue, caller, pos, price, pos_usd, chunk_size>>
    /\ UNCHANGED <<nBuys, lastAmt, lastCall, report, stalled, readFailed, startUsd, sawReached>>

\* txRes = requests.post('https://quote-api.jup.ag/v6/swap', ...).json();
\* swapTx = base64.b64decode(txRes['swapTransaction']) and the signing.  A
\* swap request built on an error body has no 'swapTransaction': KeyError.
SubSwap ==
    /\ sub \in {"swap", "swap_bad"}
    /\ \/ sub = "swap" /\ sub' = "send" /\ UNCHANGED <<pc, held, i, fails, staleSize, slept, lowReads>>
       \/ (sub = "swap_bad" \/ FALSE \in CallOutcomes) /\ SubRaise
    /\ UNCHANGED <<config, overview, sizing, venue, caller, pos, price, pos_usd, chunk_size>>
    /\ UNCHANGED <<nBuys, lastAmt, lastCall, report, stalled, readFailed, startUsd, sawReached>>

\* txId = http_client.send_raw_transaction(...).value; print; market_buy
\* returns and the for loop of the caller goes on (cprint, time.sleep(1)).
\* The order is sent: q tokens arrive.
SubSend ==
    /\ sub = "send"
    /\ \E ok \in CallOutcomes, q \in Fills(chunk_size) :
          IF ok
          THEN /\ sub' = "idle"
               /\ held' = held + q
               /\ i' = i + 1
               /\ staleSize' = TRUE
               /\ slept' = 1
               /\ UNCHANGED <<pc, fails, lowReads>>
          ELSE SubRaise
    /\ UNCHANGED <<config, overview, sizing, venue, caller, pos, price, pos_usd, chunk_size>>
    /\ UNCHANGED <<nBuys, lastAmt, lastCall, report, stalled, readFailed, startUsd, sawReached>>

\* Variant: the loop is left after its first order.
AccBatchDone_Early ==
    /\ pc = "acc_buy"
    /\ i >= 1
    /\ pc' = "acc_reread"
    /\ slept' = slept + cfg_tx_sleep
    /\ UNCHANGED <<config, overview, sizing, venue, held, caller, locals>>
    /\ UNCHANGED <<nBuys, lastAmt, lastCall, report, stalled, readFailed, fails, startUsd, sawReached, staleSize, lowReads>>

\* the for loop is exhausted; time.sleep(tx_sleep)
AccBatchDone ==
    /\ pc = "acc_buy"
    /\ i >= orders_per_open
    /\ pc' = "acc_reread"
    /\ slept' = slept + cfg_tx_sleep
    /\ UNCHANGED <<config, overview, sizing, venue, held, caller, locals>>
    /\ UNCHANGED <<nBuys, lastAmt, lastCall, report, stalled, readFailed, fails, startUsd, sawReached, staleSize, lowReads>>

\* the re-read inside the try (85 - 92); an exception goes to `except:`
AccReread ==
    /\ pc = "acc_reread"
    /\ ReadAndSize("acc_tail", "acc_backoff")
    /\ UNCHANGED <<config, overview, sizing, venue, held, caller, i, sub>>
    /\ UNCHANGED <<nBuys, lastAmt, lastCall, report, stalled, fails, startUsd>>

\* Variant: the retry starts at once, the 30 seconds are not slept.
AccBackoff_NoSleep ==
    /\ pc = "acc_backoff"
    /\ pc' = "acc_retry"
    /\ i' = 0
    /\ UNCHANGED <<config, overview, sizing, venue, held, caller, pos, price, pos_usd, chunk_size, sub, ghost>>

\* except: try: cprint('trying again ... in 30 seconds'); time.sleep(30)
AccBackoff ==
    /\ pc = "acc_backoff"
    /\ pc' = "acc_retry"
    /\ i' = 0
    /\ slept' = slept + Backoff
    /\ UNCHANGED <<config, overview, sizing, venue, held, caller, pos, price, pos_usd, chunk_size, sub>>
    /\ UNCHANGED <<nBuys, lastAmt, lastCall, report, stalled, readFailed, fails, startUsd, sawReached, staleSize, lowReads>>

\* the retry: for i in range(orders_per_open): n.market_buy(...)
AccRetryBuy ==
    /\ pc = "acc_retry"
    /\ i < orders_per_open
    /\ MarketBuy(chunk_size)
    /\ UNCHANGED <<config, overview, sizing, venue, held, pc, caller, pos, price, pos_usd, chunk_size, i>>
    /\ UNCHANGED <<report, stalled, readFailed, fails, startUsd, sawReached, staleSize, slept, lowReads>>

\* Variant: a retry that went through still ends the step as a final error.
AccRetryDone_GivesUp ==
    /\ pc = "acc_retry"
    /\ i >= orders_per_open
    /\ pc' = "acc_final"
    /\ UNCHANGED <<config, overview, sizing, venue, held, caller, locals, ghost>>

\* the retry's for loop is exhausted; time.sleep(tx_sleep)
AccRetryDone ==
    /\ pc = "acc_retry"
    /\ i >= orders_per_open
    /\ pc' = "acc_retry_read"
    /\ slept' = slept + cfg_tx_sleep
    /\ UNCHANGED <<config, overview, sizing, venue, held, caller, locals>>
    /\ UNCHANGED <<nBuys, lastAmt, lastCall, report, stalled, readFailed, fails, startUsd, sawReached, staleSize, lowReads>>

\* the re-read of the retry (106 - 113); an exception goes to the inner except
AccRetryRead ==
    /\ pc = "acc_retry_read"
    /\ ReadAndSize("acc_tail", "acc_final")
    /\ UNCHANGED <<config, overview, sizing, venue, held, caller, i, sub>>
    /\ UNCHANGED <<nBuys, lastAmt, lastCall, report, stalled, fails, startUsd>>

\* Variant: the final error switches the selector to close mode.
AccFinal_SwitchesMode ==
    /\ pc = "acc_final"
    /\ stalled' = TRUE
    /\ report' = "final_error"
    /\ pc' = "acc_filled"
    /\ buy' = 0
    /\ UNCHANGED <<usd_size, max_usd_order_size, slippage, orders_per_open,
                   buy_under, sell_over>>
    /\ UNCHANGED <<overview, sizing, venue, held, caller, locals>>
    /\ UNCHANGED <<nBuys, lastAmt, lastCall, readFailed, fails, startUsd, sawReached, staleSize, slept, lowReads>>

\* except: cprint('Final Error in the buy, restart needed'); sleep(10); break
AccFinal ==
    /\ pc = "acc_final"
    /\ stalled' = TRUE
    /\ report' = "final_error"
    /\ pc' = "acc_filled"
    /\ UNCHANGED <<config, overview, sizing, venue, held, caller, locals>>
    /\ UNCHANGED <<nBuys, lastAmt, lastCall, readFailed, fails, startUsd, sawReached, staleSize, slept, lowReads>>

\* time.sleep(3) and the re-read after the try statement (121 - 129); it is
\* outside the try, so an exception leaves bot().
AccTail ==
    /\ pc = "acc_tail"
    /\ ReadAndSize("acc_loop", Propagate)
    /\ UNCHANGED <<config, overview, sizing, venue, held, caller, i, sub>>
    /\ UNCHANGED <<nBuys, lastAmt, lastCall, report, stalled, fails, startUsd>>

\* Variant: the break after the report is missing, `while buy == 1` repeats.
AccFilled_NoBreak ==
    /\ pc = "acc_filled"
    /\ report' = "filled"
    /\ pc' = "acc_read"
    /\ UNCHANGED <<config, overview, sizing, venue, held, caller, locals>>
    /\ UNCHANGED <<nBuys, lastAmt, lastCall, stalled, readFailed, fails, startUsd, sawReached, staleSize, slept, lowReads>>

\* cprint('position filled of ... total: $pos_usd'); break
AccFilled ==
    /\ pc = "acc_filled"
    /\ report' = "filled"
    /\ pc' = "after_acc"
    /\ UNCHANGED <<config, overview, sizing, venue, held, caller, locals>>
    /\ UNCHANGED <<nBuys, lastAmt, lastCall, stalled, readFailed, fails, startUsd, sawReached, staleSize, slept, lowReads>>

\* ------------------------------------------------- executors not in src/
\* n.chunk_kill(symbol, max_usd_order_size, slippage): sells the position in
\* orders of at most max_usd_order_size; q tokens leave the wallet.
SellQtys ==
    {IF held < FillQty(ToMicro(max_usd_order_size), p)
     THEN held ELSE FillQty(ToMicro(max_usd_order_size), p) : p \in Quotes}
    \cup (IF venue = "faulty" THEN {0} ELSE {})

\* n.market_sell(QUOTE_TOKEN, amount, slippage) is entered.
MarketSell ==
    /\ sub = "idle"
    /\ sub' = "s_quote"

\* chunk_kill hands one order to market_sell.
ChunkKill ==
    /\ lastCall' = "chunk_kill"
    /\ lowReads' = 0
    /\ MarketSell

\* Where bot() goes on when chunk_kill has returned: pos = get_position (41)
\* in close mode, time.sleep(15) and the next pass (157) in market-maker mode.
KillReturn == IF pc = "close_kill" THEN "close_reread" ELSE "mm_read"

\* A request of market_sell raises: neither call site of chunk_kill is inside
\* a try, the exception leaves bot().
SellRaise ==
    /\ sub' = "idle"
    /\ pc' = Propagate
    /\ held' = held

\* market_sell: quote = requests.get(...).json(), as in market_buy.
SellQuote ==
    /\ sub = "s_quote"
    /\ \/ sub' = "s_swap" /\ UNCHANGED <<pc, held>>
       \/ venue = "faulty" /\ sub' = "s_swap_bad" /\ UNCHANGED <<pc, held>>
       \/ FALSE \in CallOutcomes /\ SellRaise
    /\ UNCHANGED <<config, overview, sizing, venue, caller, pos, price, pos_usd, chunk_size, i, ghost>>

\* market_sell: txRes = requests.post(...).json(); txRes['swapTransaction']
SellSwap ==
    /\ sub \in {"s_swap", "s_swap_bad"}
    /\ \/ sub = "s_swap" /\ sub' = "s_send" /\ UNCHANGED <<pc, held>>
       \/ (sub = "s_swap_bad" \/ FALSE \in CallOutcomes) /\ SellRaise
    /\ UNCHANGED <<config, overview, sizing, venue, caller, pos, price, pos_usd, chunk_size, i, ghost>>

\* market_sell: txId = http_client.send_raw_transaction(...).value; print;
\* market_sell and chunk_kill return.  The order is sent: q tokens leave.
SellSend ==
    /\ sub = "s_send"
    /\ \E ok \in CallOutcomes, q \in SellQtys :
          IF ok
          THEN sub' = "idle" /\ held' = held - q /\ pc' = KillReturn
          ELSE SellRaise
    /\ UNCHANGED <<config, overview, sizing, venue, caller, pos, price, pos_usd, chunk_size, i, ghost>>

\* n.elegant_entry(symbol, buy_under): one accumulate step, sized to the gap
\* and bounded by max_usd_order_size, taken as a single step.
ElegantEntry(ok, q) ==
    /\ lastCall' = "elegant_entry"
    /\ held' = IF ok THEN held + q ELSE held

\* ---------------------------------------------- bot(): buy == 0 (35 - 53)
\* pos = n.get_position(symbol)
CloseRead ==
    /\ pc = "close_read"
    /\ GetPosition("close_loop", Propagate)
    /\ UNCHANGED <<config, overview, sizing, venue, held, caller, price, pos_usd, chunk_size, i, sub>>
    /\ UNCHANGED <<nBuys, lastAmt, lastCall, report, stalled, fails, startUsd, sawReached, staleSize, slept>>

\* while pos > 0:
CloseLoop ==
    /\ pc = "close_loop"
    /\ pc' = IF pos > 0 THEN "close_kill" ELSE "close_check"
    /\ UNCHANGED <<config, overview, sizing, venue, held, caller, locals, ghost>>

\* n.chunk_kill(symbol, max_usd_order_size, slippage)
CloseKill ==
    /\ pc = "close_kill"
    /\ ChunkKill
    /\ UNCHANGED <<config, overview, sizing, venue, held, pc, caller, pos, price, pos_usd, chunk_size, i>>
    /\ UNCHANGED <<nBuys, lastAmt, report, stalled, readFailed, fails, startUsd, sawReached, staleSize, slept>>

\* pos = n.get_position(symbol); time.sleep(1)
CloseReread ==
    /\ pc = "close_reread"
    /\ GetPosition("close_loop", Propagate)
    /\ UNCHANGED <<config, overview, sizing, venue, held, caller, price, pos_usd, chunk_size, i, sub>>
    /\ UNCHANGED <<nBuys, lastAmt, lastCall, report, stalled, fails, startUsd, sawReached, staleSize, slept>>

\* Tokens that reach the wallet during the time.sleep(15) of line 46: none,
\* or on the faulty venue one token of an order that settles late.
LateFills == IF venue = "faulty" /\ held < MaxInitHeld THEN {0, 1} ELSE {0}

\* Variant: the report follows the first low read, without a second read.
CloseCheck_NoSecondRead ==
    /\ pc = "close_check"
    /\ pc' = IF 10 * pos < 9 THEN "close_confirm" ELSE "close_read"
    /\ UNCHANGED <<config, overview, sizing, venue, held, caller, locals, ghost>>

\* if pos < .9: time.sleep(15); pos = n.get_position(symbol)
CloseCheck ==
    /\ pc = "close_check"
    /\ IF 10 * pos < 9
       THEN \E late \in LateFills :
               /\ held' = held + late
               /\ ReadPosition(held', "close_confirm", Propagate)
       ELSE /\ pc' = "close_read" /\ pos' = pos /\ readFailed' = readFailed
            /\ UNCHANGED <<held, lowReads>>
    /\ UNCHANGED <<config, overview, sizing, venue, caller, price, pos_usd, chunk_size, i, sub>>
    /\ UNCHANGED <<nBuys, lastAmt, lastCall, report, stalled, fails, startUsd, sawReached, staleSize, slept>>

\* Variant: after the report the close loop starts over at once, without the
\* long sleep and the break.
CloseConfirm_NoCooldown ==
    /\ pc = "close_confirm"
    /\ IF 10 * pos < 9
       THEN report' = "closed" /\ pc' = "close_read"
       ELSE report' = report /\ pc' = "close_read"
    /\ UNCHANGED <<config, overview, sizing, venue, held, caller, locals>>
    /\ UNCHANGED <<nBuys, lastAmt, lastCall, stalled, readFailed, fails, startUsd, sawReached, staleSize, slept, lowReads>>

\* if pos < .9: print('position closed thanks moon dev....')
CloseConfirm ==
    /\ pc = "close_confirm"
    /\ IF 10 * pos < 9
       THEN report' = "closed" /\ pc' = "close_sleep"
       ELSE report' = report /\ pc' = "close_read"
    /\ UNCHANGED <<config, overview, sizing, venue, held, caller, locals>>
    /\ UNCHANGED <<nBuys, lastAmt, lastCall, stalled, readFailed, fails, startUsd, sawReached, staleSize, slept, lowReads>>

\* Variant: the break is missing, `while buy == 0` repeats after the sleep.
CloseSleep_NoBreak ==
    /\ pc = "close_sleep"
    /\ pc' = "close_read"
    /\ UNCHANGED <<config, overview, sizing, venue, held, caller, locals, ghost>>

\* time.sleep(876786); break
CloseSleep ==
    /\ pc = "close_sleep"
    /\ pc' = "after_close"
    /\ UNCHANGED <<config, overview, sizing, venue, held, caller, locals, ghost>>

\* -------------------------------------------- bot(): buy == 5 (139 - 183)
\* the measurement at the top of `while buy == 5` (143 - 151)
MMRead ==
    /\ pc = "mm_read"
    /\ ReadAndSize("mm_decide", Propagate)
    /\ UNCHANGED <<config, overview, sizing, venue, held, caller, i, sub>>
    /\ UNCHANGED <<nBuys, lastAmt, lastCall, report, stalled, fails, startUsd>>

\* Variant: the two comparisons are inclusive, a price equal to a threshold
\* trades.
MMBranch_TiesAct ==
    IF price >= sell_over THEN "mm_kill"
    ELSE IF (price <= buy_under) /\ (pos_usd < usd_size) THEN "mm_reread"
    ELSE "mm_idle"

\* Variant: the buy branch enters at once, without the second measurement.
MMBranch_NoReread ==
    IF price > sell_over THEN "mm_kill"
    ELSE IF (price < buy_under) /\ (pos_usd < usd_size) THEN "mm_entry"
    ELSE "mm_idle"

\* Variant: the buy test comes before the sell test.
MMBranch_BuyFirst ==
    IF (price < buy_under) /\ (pos_usd < usd_size) THEN "mm_reread"
    ELSE IF price > sell_over THEN "mm_kill"
    ELSE "mm_idle"

\* if price > sell_over: ... elif (price < buy_under) and (pos_usd < usd_size):
\* ... else: ...
MMBranch ==
    IF price > sell_over THEN "mm_kill"
    ELSE IF (price < buy_under) /\ (pos_usd < usd_size) THEN "mm_reread"
    ELSE "mm_idle"

MMDecide ==
    /\ pc = "mm_decide"
    /\ pc' = MMBranch
    /\ UNCHANGED <<config, overview, sizing, venue, held, caller, locals, ghost>>

\* n.chunk_kill(symbol, max_usd_order_size, slippage); time.sleep(15)
MMKill ==
    /\ pc = "mm_kill"
    /\ ChunkKill
    /\ UNCHANGED <<config, overview, sizing, venue, held, pc, caller, pos, price, pos_usd, chunk_size, i>>
    /\ UNCHANGED <<nBuys, lastAmt, report, stalled, readFailed, fails, startUsd, sawReached, staleSize, slept>>

\* time.sleep(10) and the second measurement (162 - 173)
MMReread ==
    /\ pc = "mm_reread"
    /\ ReadAndSize("mm_confirm", Propagate)
    /\ UNCHANGED <<config, overview, sizing, venue, held, caller, i, sub>>
    /\ UNCHANGED <<nBuys, lastAmt, lastCall, report, stalled, fails, startUsd>>

\* Variant: the second test is dropped, the entry follows the re-read.
MMConfirm_NoSecondTest ==
    /\ pc = "mm_confirm"
    /\ pc' = "mm_entry"
    /\ UNCHANGED <<config, overview, sizing, venue, held, caller, locals, ghost>>

\* if (pos_usd < usd_size) and (price < buy_under):
MMConfirm ==
    /\ pc = "mm_confirm"
    /\ pc' = IF (pos_usd < usd_size) /\ (price < buy_under)
             THEN "mm_entry" ELSE "mm_read"
    /\ UNCHANGED <<config, overview, sizing, venue, held, caller, locals, ghost>>

\* n.elegant_entry(symbol, buy_under); time.sleep(15)
MMEntry ==
    /\ pc = "mm_entry"
    /\ \E ok \in CallOutcomes, q \in Fills(chunk_size) :
          /\ ElegantEntry(ok, q)
          /\ pc' = IF ok THEN "mm_read" ELSE Propagate
    /\ UNCHANGED <<config, overview, sizing, venue, caller, locals>>
    /\ UNCHANGED <<nBuys, lastAmt, report, stalled, readFailed, fails, startUsd, sawReached, staleSize, slept, lowReads>>

\* Variant: bot() returns after the idle branch, one decision per call.
MMIdle_Returns ==
    /\ pc = "mm_idle"
    /\ pc' = "b_exit"
    /\ UNCHANGED <<config, overview, sizing, venue, held, caller, locals, ghost>>

\* else: print('... not buying or selling ...'); time.sleep(30)
MMIdle ==
    /\ pc = "mm_idle"
    /\ pc' = "mm_read"
    /\ UNCHANGED <<config, overview, sizing, venue, held, caller, locals, ghost>>

\* ------------------------------------------------------------ specification
BotStep ==
    \/ BotEntry \/ AfterClose \/ AfterAcc \/ BotReturn
    \/ AccRead \/ AccCheck \/ AccSleep \/ AccLoop \/ AccBuy \/ AccBatchDone
    \/ SubQuote \/ SubSwap \/ SubSend
    \/ SellQuote \/ SellSwap \/ SellSend
    \/ AccReread \/ AccBackoff \/ AccRetryBuy \/ AccRetryDone \/ AccRetryRead
    \/ AccFinal \/ AccTail \/ AccFilled
    \/ CloseRead \/ CloseLoop \/ CloseKill \/ CloseReread \/ CloseCheck
    \/ CloseConfirm \/ CloseSleep
    \/ MMRead \/ MMDecide \/ MMKill \/ MMReread \/ MMConfirm \/ MMEntry \/ MMIdle

Next ==
    \/ Startup \/ SchedRun \/ SchedWait \/ SchedExcept \/ Spin
    \/ BotStep

Spec == Init /\ [][Next]_vars

\* The control loop is one synchronous thread: a step that is enabled (a call
\* returning or raising, a sleep ending, a due job being run) is taken.
FairSpec == Spec /\ WF_vars(Next)

\* token_overview on its own: one call per behaviour, any response.
OverviewNext == TokenOverview

OverviewSpec == OverviewInit /\ [][OverviewNext]_vars

\* The sizing of the first order of an Accumulate run, on its own.
SizingNext == SizingRead \/ SizingTest \/ SizingBuy

SizingSpec == SizingInit /\ [][SizingNext]_vars

\* ================================================================== claims

\* C1: in Accumulate mode every order passed to the swap submitter (first
\* attempt or retry, any replica) has notional size <= max_usd_order_size.
C1_OrderWithinCap ==
    (buy = 1 /\ nBuys > 0) => lastAmt <= ToMicro(max_usd_order_size)

\* A retry order was sent with the cap biting: the gap is larger than the cap.
C1_Witness ==
    /\ buy = 1 /\ pc = "acc_retry" /\ i > 0
    /\ lastAmt = ToMicro(max_usd_order_size)
    /\ usd_size - pos_usd > max_usd_order_size

\* C2: an Accumulate run reports 'position filled' only when the most recently
\* measured holdings value is within tolerance of the target
\* (pos_usd >= 0.97 * usd_size), never because the submissions gave up.
C2_FilledOnlyAtTarget ==
    (buy = 1 /\ report = "filled")
        => (~BelowTarget(pos_usd, usd_size) /\ ~stalled)

\* C3: once a position read or a price read has failed in a tick, no order is
\* submitted during the remainder of that invocation of bot().
C3_NoOrderAfterFailedRead ==
    [][(readFailed /\ readFailed')
          => (nBuys' = nBuys /\ lastCall' = lastCall)]_vars

\* C4: a fault raised during any invocation of bot(), the first one included,
\* never terminates the process.
C4_ProcessSurvives == pc # "dead"

\* C5: when the first submission of a step fails and the retry fails too, the
\* executor reports Stalled ('Final Error') and submits nothing more in that
\* tick; a failed submission is retried at most once per step.
C5_BoundedRetry ==
    /\ [](fails <= 2 /\ (fails = 2 => (pc = "acc_final" \/ stalled)))
    /\ [][(pc = "acc_final" => stalled')
          /\ ((stalled /\ stalled') => nBuys' = nBuys)]_vars

\* Two submissions of one step failed, the tick ended stalled.
C5_Witness ==
    buy = 1 /\ fails = 2 /\ stalled /\ pc = "b_exit" /\ nBuys >= 2

\* A successful re-read leads to the measurement after the try statement with
\* fresh position, price, value and chunk, and without a Stalled report.
C6_FreshAtTail ==
    /\ pc' = "acc_tail"
    /\ pos' = held
    /\ pos_usd' = pos' * price'
    /\ chunk_size' = ToMicro(ChunkSize(pos_usd'))
    /\ ~stalled' /\ report' # "final_error"

C7_Scenario ==
    /\ buy = 1 /\ venue = "stable"
    /\ usd_size = 5 /\ max_usd_order_size = 1 /\ startUsd = 0

\* C7 as stated: the run makes exactly 5 submissions, each of size 1, before
\* it reports Reached.
C7_ExactlyFive ==
    (C7_Scenario /\ report = "filled") => (nBuys = 5 /\ lastAmt = ToMicro(1))

\* C7 as amended: the orders have size 1 and go out in batches of
\* orders_per_open; Reached is reported after the smallest multiple of
\* orders_per_open that is at least 5 (5 for one replica, 6 for three).
C7_BatchesOfReplicas ==
    C7_Scenario =>
        /\ nBuys > 0 => lastAmt = ToMicro(1)
        /\ report = "filled" =>
              /\ nBuys % orders_per_open = 0
              /\ nBuys >= 5
              /\ nBuys - orders_per_open < 5

\* The configured three replicas: Reached after six submissions.
C7_Witness ==
    /\ C7_Scenario /\ orders_per_open = cfg_orders_per_open
    /\ report = "filled" /\ nBuys = 6 /\ pc = "b_exit"

\* C8: invoking Accumulate when the measured holdings value is already at or
\* above the target submits zero orders and reports Reached.
C8_NoOrderAtTarget ==
    (buy = 1 /\ startUsd >= usd_size) =>
        /\ nBuys = 0
        /\ pc \notin {"acc_buy", "acc_backoff", "acc_retry", "acc_final"}
        /\ pc \in {"after_acc", "b_exit", "sched"}
              => (report = "filled" /\ ~stalled)

\* The run started exactly at the target and returned without an order.
C8_Witness ==
    /\ buy = 1 /\ usd_size > 0 /\ startUsd = usd_size
    /\ pc = "b_exit" /\ report = "filled" /\ nBuys = 0

\* C9 as stated (its second half): once a re-measured position has put the
\* gap below the threshold, no further order is submitted in that run.
C9_NoOrderAfterReachedMeasurement ==
    [][(buy = 1 /\ venue # "faulty" /\ sawReached /\ sawReached')
          => nBuys' = nBuys]_vars

\* C9 as amended: when all reads and submissions succeed and every order
\* fills, the run ends and reports Reached; the loop test is made on the
\* measurement taken after the try statement, every order is sent while that
\* latest measurement is below 0.97 * usd_size, and the loop is left as soon
\* as it is not.
C9_TerminatesAtLoopTest ==
    /\ (buy = 1 /\ venue # "faulty" /\ pc = "acc_read")
          ~> (pc = "b_exit" /\ report = "filled")
    /\ [][(buy = 1 /\ venue # "faulty") =>
             /\ (nBuys' > nBuys => BelowTarget(pos_usd, usd_size))
             /\ ((pc = "acc_loop" /\ ~BelowTarget(pos_usd, usd_size))
                    => pc' = "acc_filled")]_vars

\* A run with moving prices that sent more than one batch and reported Reached.
C9_Witness ==
    /\ buy = 1 /\ venue = "volatile" /\ pc = "b_exit" /\ report = "filled"
    /\ nBuys > orders_per_open /\ sawReached

\* C10: in MarketMake mode, whenever the price read for the decision is
\* strictly greater than sell_over, chunk_kill is called and no buy is
\* triggered, whatever buy_under and the holdings are.
C10_SellCheckFirst ==
    [][/\ (pc = "mm_decide" /\ price > sell_over) => pc' = "mm_kill"
       /\ pc = "mm_kill" =>
             /\ price > sell_over
             /\ lastCall' = "chunk_kill"
             /\ pc' \in {"mm_kill", "mm_read", "dead", "sched_except"}]_vars

\* chunk_kill is about to run although the buy condition holds as well.
C10_Witness ==
    /\ pc = "mm_kill" /\ price > sell_over
    /\ price < buy_under /\ buy_under > sell_over /\ pos_usd < usd_size

\* C11: in MarketMake mode, whenever buy_under <= price <= sell_over on the
\* decision read (a price equal to either threshold included), the decision
\* is the idle branch, which calls neither chunk_kill nor elegant_entry and
\* leaves the wallet alone, whatever the holdings are.
C11_DeadBandNoOrder ==
    [][/\ (pc = "mm_decide" /\ buy_under <= price /\ price <= sell_over)
             => pc' = "mm_idle"
       /\ pc = "mm_idle" =>
             /\ lastCall' = lastCall /\ nBuys' = nBuys /\ held' = held
             /\ pc' = "mm_read"]_vars

\* The idle branch was taken at a price equal to both thresholds while the
\* holdings are below the target.
C11_Witness ==
    /\ buy = 5 /\ pc = "mm_idle"
    /\ price = buy_under /\ price = sell_over /\ pos_usd < usd_size

\* The buy condition of lines 160 and 175 on the latest measurement.
C12_BuyCondition == (price < buy_under) /\ (pos_usd < usd_size)

\* C12 as stated (its first half): the decision read alone triggers the
\* Accumulate step.  The second measurement is taken only in the branch the
\* decision read selected (price <= sell_over, price < buy_under, holdings
\* value below the target), so the claim makes elegant_entry follow it.
C12_BuyOnDecisionRead ==
    [][pc = "mm_confirm" => pc' = "mm_entry"]_vars

\* C12 as amended: the decision read selects the buy branch exactly when
\* price <= sell_over, price < buy_under and the holdings value is below the
\* target; elegant_entry is then called only if the condition holds again on
\* the measurement taken 10 seconds later, and the chunk bot() has computed
\* from that measurement is the gap bounded by max_usd_order_size; when
\* either measurement has price >= buy_under or value >= target, no buy is
\* triggered.
C12_BuyOnConfirmedDip ==
    /\ [](pc = "mm_reread" => (price <= sell_over /\ C12_BuyCondition))
    /\ [][/\ (pc = "mm_decide" /\ price <= sell_over /\ C12_BuyCondition)
                => pc' = "mm_reread"
          /\ (pc = "mm_decide" /\ ~C12_BuyCondition)
                => pc' \in {"mm_kill", "mm_idle"}
          /\ (pc = "mm_confirm" /\ C12_BuyCondition) => pc' = "mm_entry"
          /\ (pc = "mm_confirm" /\ ~C12_BuyCondition)
                => (pc' = "mm_read" /\ held' = held /\ lastCall' = lastCall)
          /\ pc = "mm_entry" =>
                /\ lastCall' = "elegant_entry"
                /\ C12_BuyCondition
                /\ chunk_size = ToMicro(ChunkSize(pos_usd))
                /\ chunk_size > 0
                /\ chunk_size <= ToMicro(max_usd_order_size)
                /\ chunk_size <= ToMicro(usd_size - pos_usd)
          /\ (buy = 5 /\ held' > held) => pc = "mm_entry"]_vars

\* elegant_entry is about to be called with the cap biting: the gap measured
\* on the second read is larger than max_usd_order_size.
C12_Witness ==
    /\ buy = 5 /\ pc = "mm_entry" /\ C12_BuyCondition
    /\ usd_size - pos_usd > max_usd_order_size
    /\ chunk_size = ToMicro(max_usd_order_size)

\* C13 as stated: in MarketMake mode an invocation of bot() makes one
\* decision from one fresh read and then ends, so that the step after the
\* decision's action (chunk_kill, elegant_entry or nothing) leaves bot().
C13_OneDecisionPerTick ==
    [][(buy = 5 /\ pc \in {"mm_kill", "mm_entry", "mm_idle"} /\ pc' # pc)
          => pc' \in {"b_exit", "dead", "sched_except"}]_vars

\* C13 as amended: every pass of `while buy == 5` makes one decision from a
\* measurement taken at the top of that pass (position, price, value and
\* chunk are all overwritten by it), calls chunk_kill or elegant_entry at
\* most once, and then starts the next pass inside the same invocation;
\* bot() never returns in this mode, and control reaches the scheduler loop
\* only through an exception.
C13_OneDecisionPerPass ==
    /\ [](buy = 5 => pc # "b_exit")
    /\ [][buy = 5 =>
             /\ pc' = "mm_decide" =>
                   /\ pc = "mm_read"
                   /\ pos' = held
                   /\ pos_usd' = pos' * price'
                   /\ chunk_size' = ToMicro(ChunkSize(pos_usd'))
             /\ pc = "mm_decide" => pc' \in {"mm_kill", "mm_reread", "mm_idle"}
             /\ pc = "mm_idle" => pc' = "mm_read"
             /\ pc = "mm_confirm" => pc' \in {"mm_entry", "mm_read"}
             /\ (pc \in {"mm_kill", "mm_entry"} /\ pc' # pc)
                   => pc' \in {"mm_read", "dead", "sched_except"}
             /\ (lastCall' # lastCall \/ held' # held)
                   => (pc \in {"mm_kill", "mm_entry"} \/ pc = "b_entry")
             /\ pc' = "sched" => pc = "sched_except"]_vars

\* A second decision inside one invocation: the measurement of a new pass is
\* ready after an earlier pass of the same invocation has sold.
C13_Witness ==
    /\ buy = 5 /\ pc = "mm_decide" /\ lastCall = "chunk_kill"
    /\ price <= sell_over

\* C14: every batch of orders the Accumulate executor submits, on the retry
\* path as well, is sized from a position read and a price read taken after
\* the most recent order was sent: the first order of a batch (i = 0; the
\* replicas of one batch share its size) is never submitted with a chunk
\* computed before an earlier order went out.
C14_SizedAfterLastOrder ==
    [][(buy = 1 /\ nBuys' > nBuys /\ i = 0) => ~staleSize]_vars

\* Program points at which bot() starts a position or price read.
C16_ReadPoints ==
    {"acc_read", "acc_reread", "acc_retry_read", "acc_tail",
     "close_read", "close_reread", "close_check",
     "mm_read", "mm_reread"}

\* C16: a position or price read is never started while a call of market_buy
\* is still between its quote request and its return; a call in progress
\* keeps bot() in the replica loop that made it, and every step that assigns
\* a measurement is taken with no call in progress.
C16_NoReadDuringSubmission ==
    /\ [](pc \in C16_ReadPoints => sub = "idle")
    /\ [](sub # "idle" => pc \in {"acc_buy", "acc_retry", "close_kill", "mm_kill"})
    /\ [][(pos' # pos \/ price' # price \/ pos_usd' # pos_usd)
              => (sub = "idle" /\ sub' = "idle")]_vars

\* The re-read of a step is about to start after all replicas have returned.
C16_Witness ==
    /\ buy = 1 /\ pc = "acc_reread" /\ sub = "idle"
    /\ nBuys = orders_per_open /\ orders_per_open > 1 /\ lastCall = "market_buy"

\* Program points outside bot(): before the first call, in the scheduler
\* loop, in its except clause, and after the process has died.
C15_Outside == {"start", "sched", "sched_except", "dead"}

\* C15: invocations of bot() never overlap: bot() is entered only from a
\* point outside bot() (the first call of line 195 or run_pending in the
\* loop), and an invocation that is left has either returned or raised, so
\* it has ended, sleeps included, before the next one begins.
C15_NoOverlap ==
    [][/\ pc' = "b_entry" => pc \in {"start", "sched"}
       /\ (pc \notin C15_Outside /\ pc' \in C15_Outside)
             => (pc = "b_exit" \/ pc' \in {"dead", "sched_except"})
       /\ (pc \in C15_Outside /\ pc' \notin C15_Outside) => pc' = "b_entry"]_vars

\* The scheduler starts an invocation after an earlier one has ended with a
\* report.
C15_Witness ==
    pc = "b_entry" /\ caller = "sched" /\ report \in {"filled", "closed"}

\* C17: in Close mode the only orders are sells (chunk_kill), and once
\* 'position closed' has been reported bot() is in the long sleep or past
\* it: the report is followed by the sleep, no order is submitted from the
\* report on, and the close loop is not entered again before the sleep has
\* ended and bot() has returned.
C17_CooldownAfterClosed ==
    /\ [](buy = 0 => (nBuys = 0 /\ lastCall \in {"none", "chunk_kill"}))
    /\ []((buy = 0 /\ report = "closed") =>
             /\ 10 * pos < 9
             /\ pc \in {"close_sleep", "after_close", "after_acc", "b_exit",
                         "sched", "b_entry"})
    /\ [][buy = 0 =>
             /\ (report # "closed" /\ report' = "closed")
                   => (pc = "close_confirm" /\ pc' = "close_sleep")
             /\ pc = "close_sleep"
                   => (pc' = "after_close" /\ held' = held /\ lastCall' = lastCall)
             /\ (report = "closed" /\ report' = "closed")
                   => (held' = held /\ lastCall' = lastCall /\ nBuys' = nBuys)
             /\ pc' = "close_read" => report' # "closed"]_vars

\* The long sleep after a position that had to be sold was reported closed.
C17_Witness ==
    /\ buy = 0 /\ pc = "close_sleep" /\ report = "closed"
    /\ lastCall = "chunk_kill" /\ held = 0

\* Program points of the loops `while buy == 4` and `while buy == 5`.
C18_LoopPoints ==
    {"pnl", "mm_read", "mm_decide", "mm_kill", "mm_reread", "mm_confirm",
     "mm_entry", "mm_idle"}

\* C18: when every call returns and every sell fills (each chunk_kill lowers
\* the measured position until it reads zero), a Close run ends: it reports
\* 'position closed' and bot() returns.  A MarketMake or MonitorOnly run
\* never ends by itself: bot() never returns, its loop is left only by an
\* exception, and with every call returning it is never left.
C18_CloseEndsOthersRun ==
    /\ (buy = 0 /\ venue # "faulty" /\ pc = "close_read")
          ~> (pc = "b_exit" /\ report = "closed")
    /\ [](buy \in {4, 5} => pc # "b_exit")
    /\ []((buy \in {4, 5} /\ venue # "faulty")
             => pc \notin {"sched", "sched_except", "dead"})
    /\ [][(buy \in {4, 5} /\ pc \in C18_LoopPoints)
             => pc' \in C18_LoopPoints \cup {"dead", "sched_except"}]_vars

\* A Close run that had to sell has reported and returned while prices moved.
C18_Witness ==
    /\ buy = 0 /\ venue = "volatile" /\ pc = "b_exit" /\ report = "closed"
    /\ lastCall = "chunk_kill" /\ pos = 0

\* C19: in MonitorOnly mode (selector 4) no order is ever submitted: no call
\* of market_buy, chunk_kill or elegant_entry is made, the wallet is never
\* changed, and bot() only prints in its loop.
C19_MonitorOnlyNoOrder ==
    /\ [](buy = 4 =>
             /\ nBuys = 0 /\ lastCall = "none" /\ sub = "idle"
             /\ pc \in {"start", "b_entry", "after_close", "after_acc", "pnl"})
    /\ [][buy = 4 => held' = held]_vars

\* The print loop of selector 4 is running with a position in the wallet.
C19_Witness ==
    buy = 4 /\ pc = "pnl" /\ held > 0 /\ nBuys = 0 /\ lastCall = "none"

\* The selectors bot() has a loop for (docstring and prompt of lines 19-30).
C20_Recognised == {0, 1, 4, 5, 6, 7}

\* C20: with an operator-supplied selector that is not one of the recognised
\* modes the process does not start: bot() is never called, the scheduler
\* loop is never entered and no order is submitted.
C20_InvalidIntentDoesNotStart ==
    buy \notin C20_Recognised =>
        /\ pc \in {"start", "dead"}
        /\ nBuys = 0 /\ lastCall = "none"

\* C21: the selector and the static configuration (target, per-order cap,
\* slippage, replica count, buy and sell thresholds) are changed by no step
\* of the scheduler loop, of bot() or of market_buy; slippage keeps the value
\* of config.py.
C21_ConfigUnchanged ==
    /\ [](slippage = cfg_slippage)
    /\ [][/\ buy' = buy /\ usd_size' = usd_size
           /\ max_usd_order_size' = max_usd_order_size /\ slippage' = slippage
           /\ orders_per_open' = orders_per_open
           /\ buy_under' = buy_under /\ sell_over' = sell_over]_vars

\* A second invocation of an Accumulate run is about to start after the
\* first one ended in a final error, with the selector still 1.
C21_Witness ==
    /\ pc = "b_entry" /\ caller = "sched" /\ buy = 1
    /\ stalled /\ nBuys >= 2 /\ slippage = cfg_slippage

\* Positions inside market_buy or market_sell before the broadcast.
C22_BeforeSend == {"quote", "swap", "swap_bad", "s_quote", "s_swap", "s_swap_bad"}

\* C22: one call of market_buy or market_sell goes once through the quote
\* request, the swap request and the broadcast, in that order and without
\* going back; no other call starts inside it; a call that ends before the
\* broadcast (the quote or the swap request raised, or the swap request was
\* built on an error body) ends by an exception and has sent nothing; the
\* wallet of a Close or Accumulate run changes only in the broadcast step.
C22_OnePassNoRetry ==
    [][/\ (sub = "idle" /\ sub' # "idle") => sub' \in {"quote", "s_quote"}
       /\ sub = "quote" => sub' \in {"swap", "swap_bad", "idle"}
       /\ sub = "swap" => sub' \in {"send", "idle"}
       /\ sub = "send" => sub' = "idle"
       /\ sub = "s_quote" => sub' \in {"s_swap", "s_swap_bad", "idle"}
       /\ sub = "s_swap" => sub' \in {"s_send", "idle"}
       /\ sub = "s_send" => sub' = "idle"
       /\ sub \in {"swap_bad", "s_swap_bad"} => sub' = "idle"
       /\ sub # "idle" => (nBuys' = nBuys /\ lastCall' = lastCall)
       /\ (sub \in C22_BeforeSend /\ sub' = "idle") =>
             /\ held' = held /\ staleSize' = staleSize /\ i' = i
             /\ pc' \in {"acc_backoff", "acc_final", "dead", "sched_except"}
       /\ (buy \in {0, 1} /\ held' # held /\ pc # "close_check")
             => sub \in {"send", "s_send"}]_vars

\* The first call of a run has ended in an exception: nothing was sent and
\* the outer except clause is about to run.
C22_Witness ==
    /\ buy = 1 /\ pc = "acc_backoff" /\ sub = "idle"
    /\ nBuys = 1 /\ fails = 1 /\ ~staleSize /\ ~readFailed

\* C23: whenever an invocation of bot() ends, by a return or by an
\* exception, control is in the scheduler loop (in its except clause after an
\* exception), from where the next invocation begins.
C23_EndedInvocationReachesScheduler ==
    [][(pc \notin C15_Outside /\ pc' \in C15_Outside)
          => pc' \in {"sched", "sched_except"}]_vars

\* C24 as stated: a replica whose call fails does not stop the remaining
\* replicas of its step and does not start the backoff-and-retry path.
C24_FailingReplicaIgnored ==
    [][(buy = 1 /\ pc = "acc_buy" /\ fails' > fails)
          => (pc' = "acc_buy" /\ i' = i + 1)]_vars

\* C24 as amended: what is not checked is the fate of a submitted order: a
\* call of market_buy that returns is followed by the next replica whether or
\* not anything reaches the wallet; a call that raises ends the batch, the
\* remaining replicas are not sent, and the except clause runs (backoff and
\* retry on the first attempt, final error on the retry).
C24_ReturnedCallsUnchecked ==
    [][buy = 1 =>
          /\ (sub = "send" /\ fails' = fails) => (i' = i + 1 /\ pc' = pc)
          /\ (pc = "acc_buy" /\ fails' > fails)
                => (pc' = "acc_backoff" /\ i' = i /\ nBuys' = nBuys)
          /\ (pc = "acc_retry" /\ fails' > fails)
                => (pc' = "acc_final" /\ i' = i /\ nBuys' = nBuys)
          /\ (pc = "acc_buy" /\ i < orders_per_open /\ sub = "idle")
                => (nBuys' = nBuys + 1 /\ lastAmt' = chunk_size)]_vars

\* Three replicas were sent and none of them filled: the step goes on to its
\* re-read without a retry.
C24_Witness ==
    /\ buy = 1 /\ venue = "faulty" /\ pc = "acc_reread"
    /\ orders_per_open = cfg_orders_per_open /\ nBuys = orders_per_open
    /\ fails = 0 /\ held = 0 /\ startUsd = 0

\* C25: a position read that follows a batch follows exactly orders_per_open
\* returned orders, every order carries the chunk size of the step, and
\* neither position, price nor chunk is assigned inside the replica loop;
\* with no failing call the orders sent so far are whole batches.
C25_FullBatchOneSize ==
    /\ []((buy = 1 /\ pc \in {"acc_reread", "acc_retry_read"})
             => (i = orders_per_open /\ lastAmt = chunk_size /\ sub = "idle"))
    /\ []((buy = 1 /\ venue # "faulty" /\ pc = "acc_reread")
             => (nBuys > 0 /\ nBuys % orders_per_open = 0))
    /\ [][buy = 1 =>
             /\ nBuys' > nBuys =>
                   /\ nBuys' = nBuys + 1
                   /\ lastAmt' = chunk_size
                   /\ i < orders_per_open
             /\ pc \in {"acc_buy", "acc_retry"} =>
                   /\ chunk_size' = chunk_size
                   /\ pos' = pos /\ price' = price /\ pos_usd' = pos_usd
             /\ (pc \in {"acc_buy", "acc_retry"} /\ i' # i)
                   => (i' = i + 1 /\ sub = "send")]_vars

\* The second batch of three replicas has been sent and the re-read is next.
C25_Witness ==
    /\ buy = 1 /\ venue = "volatile" /\ pc = "acc_reread"
    /\ orders_per_open = cfg_orders_per_open /\ i = orders_per_open
    /\ nBuys = 2 * orders_per_open /\ lastAmt = chunk_size

\* C26: the re-read after a batch starts only after tx_sleep seconds of
\* sleep since the last order returned, the retry is entered only through
\* the sleep of the outer except clause, and its first order is submitted
\* with at least that backoff slept since the failure.
C26_PacingOrder ==
    /\ []((buy = 1 /\ pc \in {"acc_reread", "acc_retry_read"})
             => slept >= cfg_tx_sleep)
    /\ []((buy = 1 /\ pc = "acc_retry" /\ i = 0) => slept >= Backoff)
    /\ [][buy = 1 =>
             /\ (pc' = "acc_retry" /\ pc # "acc_retry")
                   => (pc = "acc_backoff" /\ slept' = slept + Backoff)
             /\ (pc = "acc_retry" /\ i = 0 /\ nBuys' > nBuys)
                   => slept >= Backoff
             /\ (pc' = "acc_reread" /\ pc # "acc_reread")
                   => (pc = "acc_buy" /\ slept' = slept + cfg_tx_sleep)]_vars

\* The first order of the retry is in flight, 30 seconds after the failure.
C26_Witness ==
    /\ buy = 1 /\ pc = "acc_retry" /\ i = 0 /\ sub = "quote"
    /\ fails = 1 /\ slept = Backoff

\* Program points of the three trading loops.
C28_ClosePoints ==
    {"close_read", "close_loop", "close_kill", "close_reread", "close_check",
     "close_confirm", "close_sleep"}

C28_AccPoints ==
    {"acc_read", "acc_check", "acc_sleep", "acc_loop", "acc_buy", "acc_reread",
     "acc_backoff", "acc_retry", "acc_retry_read", "acc_final", "acc_tail",
     "acc_filled"}

C28_MMPoints ==
    {"mm_read", "mm_decide", "mm_kill", "mm_reread", "mm_confirm", "mm_entry",
     "mm_idle"}

\* C28: a Close run never calls market_buy or elegant_entry and never is in
\* the accumulate or market-maker loop; an Accumulate run never calls
\* chunk_kill or market_sell, never lowers the wallet and never is in the
\* close or market-maker loop; after the loop of its mode the invocation
\* goes to the return of bot().
C28_OneDirectionOneLoop ==
    /\ [](buy = 0 =>
             /\ nBuys = 0 /\ lastCall \notin {"market_buy", "elegant_entry"}
             /\ sub \notin {"quote", "swap", "swap_bad", "send"}
             /\ pc \notin C28_AccPoints \cup C28_MMPoints)
    /\ [](buy = 1 =>
             /\ lastCall \in {"none", "market_buy"}
             /\ sub \notin {"s_quote", "s_swap", "s_swap_bad", "s_send"}
             /\ pc \notin C28_ClosePoints \cup C28_MMPoints)
    /\ [][/\ buy = 1 => held' >= held
          /\ (buy = 0 /\ pc = "after_close") => pc' = "after_acc"
          /\ (buy \in {0, 1} /\ pc = "after_acc") => pc' = "b_exit"]_vars

\* A Close run that sold has left its loop and passed the test of the
\* accumulate loop.
C28_Witness ==
    buy = 0 /\ pc = "after_acc" /\ report = "closed" /\ lastCall = "chunk_kill"

\* C29: 'position closed' is reported only after two successful position
\* reads in a row, with no chunk_kill between them, were both below 0.9; the
\* second one is the read that follows time.sleep(15).  When that second
\* read is 0.9 or more nothing is reported, `while buy == 0` starts over
\* with a new read, and a position above 0 is sold again.
C29_TwoLowReads ==
    /\ []((buy = 0 /\ report = "closed") => (lowReads >= 2 /\ 10 * pos < 9))
    /\ [][buy = 0 =>
             /\ (report' = "closed" /\ report # "closed")
                   => (pc = "close_confirm" /\ lowReads >= 2)
             /\ (pc = "close_check" /\ pc' = "close_confirm")
                   => (10 * pos < 9 /\ pos' = held' /\ lastCall' = lastCall)
             /\ (pc = "close_confirm" /\ 10 * pos >= 9)
                   => (pc' = "close_read" /\ report' = report /\ lowReads = 0)
             /\ (pc = "close_loop" /\ pos > 0) => pc' = "close_kill"
             /\ pc = "close_kill" => lowReads' = 0]_vars

\* After a sell the first read was below 0.9 and the second read, 15 seconds
\* later, is not.
C29_Witness ==
    /\ buy = 0 /\ pc = "close_confirm" /\ pos > 0 /\ lowReads = 0
    /\ lastCall = "chunk_kill" /\ report = "none"

\* C30: every buy of an Accumulate run, first attempt or retry, is submitted
\* while the most recently read position, valued at the most recently read
\* price, is below 0.97 * usd_size.
C30_BuyOnlyBelowTarget ==
    [][(buy = 1 /\ nBuys' > nBuys) => BelowTarget(pos * price, usd_size)]_vars

\* C27: a token_overview call that got status 200 ends with rug_pull stored
\* in its result, true exactly when some non-null price-change figure is
\* below -80 (exactly -80 does not flag).
C27_RugPullFlag ==
    (overview.status = 200 /\ overview.outcome \notin {"not_called", "pending"})
        => /\ overview.has_rug_pull
           /\ overview.rug_pull = RugPull(overview.changes)

\* C31: in MarketMake mode elegant_entry is called only at the end of the
\* chain decision read -> buy condition -> second read -> buy condition: the
\* two reads are successive measurements of position and price with no order
\* between them (the second one follows time.sleep(10) in the same step), and
\* price < buy_under and holdings value < usd_size hold on both.  When the
\* condition fails on the second read, or the second read raises, the pass
\* ends with no order.
C31_EntryAfterTwoReads ==
    /\ [](pc = "mm_reread" => (price < buy_under /\ pos_usd < usd_size))
    /\ [](pc = "mm_entry" => (price < buy_under /\ pos_usd < usd_size))
    /\ [][/\ (pc' = "mm_entry" /\ pc # "mm_entry") => pc = "mm_confirm"
          /\ (pc' = "mm_confirm" /\ pc # "mm_confirm")
                => /\ pc = "mm_reread"
                   /\ pos' = held /\ pos_usd' = pos' * price'
                   /\ held' = held /\ lastCall' = lastCall
          /\ (pc' = "mm_reread" /\ pc # "mm_reread")
                => /\ pc = "mm_decide"
                   /\ UNCHANGED <<pos, price, pos_usd, held, lastCall>>
          /\ (pc' = "mm_decide" /\ pc # "mm_decide")
                => /\ pc = "mm_read"
                   /\ pos' = held /\ pos_usd' = pos' * price'
          /\ (pc = "mm_reread" /\ pc' # "mm_confirm")
                => /\ pc' \in {"dead", "sched_except"}
                   /\ held' = held /\ lastCall' = lastCall
          /\ (pc = "mm_confirm" /\ ~(price < buy_under /\ pos_usd < usd_size))
                => (pc' = "mm_read" /\ held' = held /\ lastCall' = lastCall)
          /\ (buy = 5 /\ lastCall' = "elegant_entry" /\ lastCall # "elegant_entry")
                => pc = "mm_entry"
          /\ (buy = 5 /\ held' > held) => pc = "mm_entry"]_vars

\* The decision read met the buy condition and the second read, 10 seconds
\* later, shows the holdings at the target: this decision buys nothing.
C31_Witness ==
    /\ buy = 5 /\ pc = "mm_confirm" /\ price < buy_under
    /\ pos_usd >= usd_size /\ ~readFailed

\* C32: for every target above 0 and every measured position and price, the
\* amount an Accumulate run hands to market_buy is a whole number of
\* micro-units that is at least 1.
C32_AmountPositive ==
    (sizing.at = "submitted" /\ sizing.usd_size > 0) => sizing.amount >= 1

====
